---- MODULE Spec2Model ----
(***************************************************************************)
(* State-machine model of the UTXO runtime module runtime/src/utxo.rs:     *)
(* the two storage cells UtxoStore and RewardTotal, the dispatchable       *)
(* spend, the block hook on_finalize and the helpers update_storage and    *)
(* disperse_reward they call.                                              *)
(*                                                                         *)
(* BlakeTwo256::hash_of is modelled as a collision-free hash: a key is the *)
(* record of what was encoded and hashed.  The three preimages the module  *)
(* hashes have different byte layouts (an output is 48 bytes, an output    *)
(* with a u64 block number 56 bytes, a length-prefixed encoded transaction *)
(* with a u64 index is 2 + 96*i + 48*o + 9 bytes or more), so keys of      *)
(* different kinds never coincide and keys of one kind coincide exactly    *)
(* when what was hashed is equal.                                          *)
(***************************************************************************)
EXTENDS Integers, Sequences, FiniteSets, TLC

(* ---------------------------- bounds ----------------------------------- *)
\* Value is u128; the model keeps the checked arithmetic with a scaled width.
ValueBits == 4
\* number of spend dispatches the model runs
MaxSpends == 2
\* largest RewardTotal the storage cell starts with under SpecPool
MaxPool == 3

VALUE_MAX == 2 ^ ValueBits - 1

\* public keys (H256) used by genesis outputs, transaction outputs, authorities
PubKeys == {"A", "B"}
\* sigscripts (H512); spend never reads them, they only enter the encoding
SigScripts == {0}

\* Option::None of the checked operations (no Value is negative)
None == 0 - 1

(* ---------------------------- data types ------------------------------- *)
TransactionOutput(value, pubkey) == [value |-> value, pubkey |-> pubkey]

TransactionInput(outpoint, sigscript) ==
    [outpoint |-> outpoint, sigscript |-> sigscript]

Transaction(inputs, outputs) == [inputs |-> inputs, outputs |-> outputs]

(* ---------------------------- hashing ---------------------------------- *)
\* BlakeTwo256::hash_of(&u) of the genesis build closure
HashOfOutput(u) == [kind |-> "output", output |-> u]

\* BlakeTwo256::hash_of(&(&transaction.encode(), index))
HashOfTxIndex(transaction, index) ==
    [kind |-> "tx", transaction |-> transaction, index |-> index]

\* BlakeTwo256::hash_of(&(&utxo, block_number))
HashOfReward(utxo, bn) == [kind |-> "reward", output |-> utxo, block |-> bn]

(* ---------------------------- state ------------------------------------ *)
VARIABLES
    UtxoStore,      \* storage map H256 => Option<TransactionOutput>
    RewardTotal,    \* storage value RewardTotal
    block_number,   \* system::Module::block_number()
    phase,          \* "executing": extrinsics may run; "finalized": on_finalize ran
    events,         \* events deposited in the current block
    panicked,       \* TRUE once a call aborted with a panic
    genesis_utxo,   \* GenesisConfig.genesis_utxo
    spentInBlock,   \* keys that transactions applied in this block removed from the store
    spends,         \* number of spend dispatches so far
    aura_authorities, \* Aura::authorities(), set at genesis
    last            \* the last call: its arguments, result and the storage before it

vars == <<UtxoStore, RewardTotal, block_number, phase, events, panicked,
          genesis_utxo, spentInBlock, spends, aura_authorities, last>>

(* ---------------------------- helpers ---------------------------------- *)
RECURSIVE SumSeq(_)
\* sum of the values of a sequence of outputs
SumSeq(s) == IF s = <<>> THEN 0 ELSE s[1].value + SumSeq(Tail(s))

RECURSIVE SumStore(_)
\* sum of the values of all outputs of a store
SumStore(store) ==
    IF DOMAIN store = {} THEN 0
    ELSE LET k == CHOOSE k \in DOMAIN store : TRUE
         IN store[k].value + SumStore([j \in DOMAIN store \ {k} |-> store[j]])

\* Value::checked_add
checked_add(a, b) == IF a + b > VALUE_MAX THEN None ELSE a + b

\* a division that rounds up instead of down
checked_div_round_up(a, b) == IF b = 0 THEN None ELSE (a + b - 1) \div b

\* Value::checked_div
checked_div(a, b) == IF b = 0 THEN None ELSE a \div b

\* a subtraction with its operands exchanged
checked_sub_swapped(a, b) == IF b < a THEN None ELSE b - a

\* Value::checked_sub
checked_sub(a, b) == IF a < b THEN None ELSE a - b

\* a removal that leaves the store as it is
StoreRemoveNothing(store, key) == store

\* <UtxoStore>::remove(key)
StoreRemove(store, key) == [k \in DOMAIN store \ {key} |-> store[k]]

\* <UtxoStore>::insert(key, value): an existing entry is overwritten
StoreInsert(store, key, value) ==
    [k \in DOMAIN store \cup {key} |-> IF k = key THEN value ELSE store[k]]

\* a genesis build that salts the key of each output with its position
GenesisStoreByPosition(config) ==
    [k \in {HashOfReward(config[i], i) : i \in DOMAIN config} |-> k.output]

\* the genesis build closure: every configured output under the hash of itself
GenesisStore(config) ==
    [k \in {HashOfOutput(config[i]) : i \in DOMAIN config} |-> k.output]

(* ---------------------------- update_storage -------------------------- *)
\* a removal that stops after the first input
RemoveFirstInputOnly(store, inputs) ==
    IF inputs = <<>> THEN store ELSE StoreRemove(store, inputs[1].outpoint)

RECURSIVE RemoveInputs(_, _)
\* for input in &transaction.inputs { <UtxoStore>::remove(input.outpoint); }
RemoveInputs(store, inputs) ==
    IF inputs = <<>> THEN store
    ELSE RemoveInputs(StoreRemove(store, inputs[1].outpoint), Tail(inputs))

\* an insertion that writes the outputs into an emptied map
InsertOutputsIntoEmpty(store, transaction, index) ==
    [k \in {HashOfTxIndex(transaction, i) : i \in index..(Len(transaction.outputs) - 1)}
        |-> transaction.outputs[k.index + 1]]

RECURSIVE InsertOutputs(_, _, _)
\* for output in &transaction.outputs: insert under hash_of(&(&tx.encode(), index)).
\* index is a u64 stepped with checked_add(1); it never exceeds outputs.len(),
\* so the "output index overflow" return is not reachable.
InsertOutputs(store, transaction, index) ==
    IF index >= Len(transaction.outputs) THEN store
    ELSE InsertOutputs(
            StoreInsert(store, HashOfTxIndex(transaction, index),
                        transaction.outputs[index + 1]),
            transaction, index + 1)

\* update_storage(transaction, reward) run on storage (total, store):
\* its DispatchResult and the storage it leaves
update_storage(transaction, reward, total, store) ==
    LET new_total == checked_add(total, reward)
    IN IF new_total = None
       THEN [result |-> "Reward overflow", RewardTotal |-> total, UtxoStore |-> store]
       ELSE [result |-> "Ok",
             RewardTotal |-> new_total,
             UtxoStore |-> InsertOutputs(RemoveInputs(store, transaction.inputs),
                                         transaction, 0)]

\* the reward spend hands to update_storage: let reward : Value = 0;
SpendReward(transaction, store) == 0

\* the body of spend from the update_storage call on (lines 87-92), for the
\* reward of line 86.  The result of update_storage is dropped, the event is
\* deposited and Ok(()) is returned on every path.
spend_with(transaction, reward, total, store) ==
    LET u == update_storage(transaction, reward, total, store)
    IN [result |-> "Ok",
        update |-> u.result,
        RewardTotal |-> u.RewardTotal,
        UtxoStore |-> u.UtxoStore,
        deposited |-> <<[event |-> "TransactionSuccess", transaction |-> transaction]>>]

\* spend(_origin, transaction) run on storage (total, store)
spend(transaction, total, store) ==
    spend_with(transaction, SpendReward(transaction, store), total, store)

(* ---------------------------- disperse_reward ------------------------- *)
RECURSIVE RewardLoop(_, _, _, _)
\* for authority in authorities: insert the reward output unless its key is
\* already in the store.  Returns the store and the line printed per authority.
RewardLoop(acc, authorities, shared_value, bn) ==
    IF authorities = <<>> THEN acc
    ELSE LET utxo == TransactionOutput(shared_value, authorities[1])
             hash == HashOfReward(utxo, bn)
             next == IF hash \notin DOMAIN acc.store
                     THEN [store |-> StoreInsert(acc.store, hash, utxo),
                           printed |-> Append(acc.printed, "sent")]
                     ELSE [store |-> acc.store,
                           printed |-> Append(acc.printed, "wasted")]
         IN RewardLoop(next, Tail(authorities), shared_value, bn)

\* what disperse_reward stores in RewardTotal when shared_value == 0: the
\* cell was emptied by take() and the function returns without writing it
PoolAfterZeroShare(reward) == 0

\* a dispersal that puts the shares of the skipped authorities back in the pool
disperse_reward_refunding(authorities, total, store, bn) ==
    LET n == Len(authorities)
        shared_value == checked_div(total, n)
    IN IF shared_value = None
       THEN [panic |-> TRUE, RewardTotal |-> 0, UtxoStore |-> store, printed |-> <<>>,
             mul_overflow |-> FALSE]
       ELSE IF shared_value = 0
       THEN [panic |-> FALSE, RewardTotal |-> 0, UtxoStore |-> store, printed |-> <<>>,
             mul_overflow |-> FALSE]
       ELSE LET r == RewardLoop([store |-> store, printed |-> <<>>],
                                authorities, shared_value, bn)
                wasted == Cardinality({i \in DOMAIN r.printed : r.printed[i] = "wasted"})
            IN [panic |-> FALSE,
                RewardTotal |-> total - shared_value * n + wasted * shared_value,
                UtxoStore |-> r.store, printed |-> r.printed, mul_overflow |-> FALSE]

\* disperse_reward(authorities) run on storage (total, store) in block bn
disperse_reward(authorities, total, store, bn) ==
    LET reward == total          \* <RewardTotal>::take(): the cell now holds 0
        n == Len(authorities)
        shared_value == checked_div(reward, n)
    IN IF shared_value = None
       THEN \* .ok_or("No Authorities").unwrap() panics
            [panic |-> TRUE, RewardTotal |-> 0, UtxoStore |-> store, printed |-> <<>>,
             mul_overflow |-> FALSE]
       ELSE IF shared_value = 0
       THEN [panic |-> FALSE, RewardTotal |-> PoolAfterZeroShare(reward),
             UtxoStore |-> store, printed |-> <<>>, mul_overflow |-> FALSE]
       ELSE LET product == shared_value * n
                remainder == checked_sub(reward, product % (VALUE_MAX + 1))
            IN IF remainder = None
               THEN \* .ok_or("Sub underflow").unwrap() panics
                    [panic |-> TRUE, RewardTotal |-> 0, UtxoStore |-> store,
                     printed |-> <<>>, mul_overflow |-> product > VALUE_MAX]
               ELSE LET r == RewardLoop([store |-> store, printed |-> <<>>],
                                        authorities, shared_value, bn)
                    IN [panic |-> FALSE, RewardTotal |-> remainder,
                        UtxoStore |-> r.store, printed |-> r.printed,
                        mul_overflow |-> product > VALUE_MAX]

\* on_finalize(): the authorities' public keys as H256 (the same 32 bytes),
\* handed to disperse_reward
on_finalize(auth, total, store, bn) ==
    disperse_reward(auth, total, store, bn)

(* ---------------------------- inputs ---------------------------------- *)
\* genesis configurations: two different outputs, or the same output twice
GenesisConfigs ==
    { <<TransactionOutput(1, "A"), TransactionOutput(2, "B")>>,
      <<TransactionOutput(1, "A"), TransactionOutput(1, "A")>> }

\* an outpoint no genesis, transaction or reward ever created
UnknownOutpoint == HashOfOutput(TransactionOutput(0, "B"))

\* outpoints a transaction may name: the keys of the store, the keys
\* consumed earlier in the block, and the unknown one
Outpoints == DOMAIN UtxoStore \cup spentInBlock \cup {UnknownOutpoint}

\* the outputs of the enumerated transactions
ZeroOut == TransactionOutput(0, "B")
OneOut == TransactionOutput(1, "B")

In(k) == TransactionInput(k, CHOOSE g \in SigScripts : TRUE)

\* the transactions the host dispatches: one input (present, consumed or
\* unknown) paying one or two outputs; one present input with no output or a
\* zero-value output; a present genesis output with a second present input
\* (also twice the same); no input
Transactions ==
    {Transaction(<<In(k)>>, outs) : k \in Outpoints, outs \in {<<OneOut>>, <<OneOut, OneOut>>}}
    \cup {Transaction(<<In(k)>>, outs) : k \in DOMAIN UtxoStore, outs \in {<<>>, <<ZeroOut>>}}
    \cup {Transaction(<<In(k1), In(k2)>>, <<OneOut>>) :
             k1 \in {k \in DOMAIN UtxoStore : k.kind = "output"}, k2 \in DOMAIN UtxoStore}
    \cup {Transaction(<<>>, <<OneOut>>)}

\* block numbers the model runs
BlockNumbers == {1, 2}

\* authority lists Aura is configured with: none, one, two, one key twice
AuthorityLists == { <<>>, <<"A">>, <<"A", "B">>, <<"A", "A">> }

NoCall == [op |-> "none", transaction |-> Transaction(<<>>, <<>>), authorities |-> <<>>,
           result |-> "none", update |-> "none", reward |-> 0, printed |-> <<>>, mul_overflow |-> FALSE,
           block |-> 0,
           preUtxo |-> <<>>, prePool |-> 0, preSpent |-> {}, preEvents |-> <<>>]

(* ---------------------------- initial states -------------------------- *)
\* storage after the genesis build with RewardTotal holding pool and Aura
\* configured with one of lists
InitOn(pool, lists) ==
    /\ genesis_utxo \in GenesisConfigs
    /\ aura_authorities \in lists
    /\ UtxoStore = GenesisStore(genesis_utxo)
    /\ RewardTotal = pool
    /\ block_number = 1
    /\ phase = "executing"
    /\ events = <<>>
    /\ panicked = FALSE
    /\ spentInBlock = {}
    /\ spends = 0
    /\ last = NoCall

InitWith(pool) == InitOn(pool, AuthorityLists)

\* the chain after genesis: RewardTotal has no genesis value, it reads 0
Init == InitWith(0)

\* the module's functions started on a storage whose RewardTotal cell holds
\* any Value (up to MaxPool)
InitPool == \E pool \in 0..MaxPool : InitWith(pool)

(* ---------------------------- actions --------------------------------- *)
\* the storage, events and history after a spend dispatch that ran with
\* reward and ended as r
SpendEffect(transaction, reward, r) ==
    /\ UtxoStore' = r.UtxoStore
    /\ RewardTotal' = r.RewardTotal
    /\ events' = events \o r.deposited
    /\ spentInBlock' =
          IF r.update = "Ok"
          THEN spentInBlock \cup
               ({transaction.inputs[i].outpoint : i \in DOMAIN transaction.inputs}
                   \cap DOMAIN UtxoStore)
          ELSE spentInBlock
    /\ last' = [op |-> "spend", transaction |-> transaction,
                authorities |-> <<>>, result |-> r.result,
                update |-> r.update, reward |-> reward,
                printed |-> <<>>, mul_overflow |-> FALSE,
                block |-> block_number,
                preUtxo |-> UtxoStore, prePool |-> RewardTotal,
                preSpent |-> spentInBlock, preEvents |-> events]
    /\ spends' = spends + 1
    /\ UNCHANGED <<block_number, phase, panicked, genesis_utxo, aura_authorities>>

\* the host dispatches spend(origin, transaction)
Spend ==
    /\ ~panicked
    /\ phase = "executing"
    /\ spends < MaxSpends
    /\ \E transaction \in Transactions :
          SpendEffect(transaction, SpendReward(transaction, UtxoStore),
                      spend(transaction, RewardTotal, UtxoStore))

\* the host calls on_finalize() at the end of the block
OnFinalize ==
    /\ ~panicked
    /\ phase = "executing"
    /\ LET authorities == aura_authorities
           r == on_finalize(authorities, RewardTotal, UtxoStore, block_number)
       IN /\ UtxoStore' = r.UtxoStore
             /\ RewardTotal' = r.RewardTotal
             /\ panicked' = r.panic
             /\ last' = [op |-> "on_finalize", transaction |-> Transaction(<<>>, <<>>),
                         authorities |-> authorities,
                         result |-> IF r.panic THEN "panic" ELSE "done",
                         update |-> "none", reward |-> 0,
                         printed |-> r.printed, mul_overflow |-> r.mul_overflow,
                         block |-> block_number,
                         preUtxo |-> UtxoStore, prePool |-> RewardTotal,
                         preSpent |-> spentInBlock, preEvents |-> events]
    /\ phase' = "finalized"
    /\ UNCHANGED <<block_number, events, genesis_utxo, spentInBlock, spends, aura_authorities>>

\* the host starts the next block: the block number advances and the events
\* of the previous block are dropped
NextBlock ==
    /\ ~panicked
    /\ phase = "finalized"
    /\ block_number + 1 \in BlockNumbers
    /\ block_number' = block_number + 1
    /\ phase' = "executing"
    /\ events' = <<>>
    /\ spentInBlock' = {}
    /\ UNCHANGED <<UtxoStore, RewardTotal, panicked, genesis_utxo, spends, aura_authorities, last>>

Next == Spend \/ OnFinalize \/ NextBlock

Spec == Init /\ [][Next]_vars

SpecPool == InitPool /\ [][Next]_vars

(* ------------------- spend with a credited fee ------------------------ *)
\* rewards handed to update_storage when the body of spend runs with a fee
Fees == {0, 1, 2}

\* storage whose RewardTotal cell is empty or at the top of the Value range
InitFee == \E pool \in {0, VALUE_MAX - 1, VALUE_MAX} : InitWith(pool)

\* the body of spend (lines 87-92) run with a reward other than the 0 of
\* line 86, as it runs once a fee is credited
SpendWithFee ==
    /\ ~panicked
    /\ phase = "executing"
    /\ spends < MaxSpends
    /\ \E transaction \in Transactions, reward \in Fees :
          SpendEffect(transaction, reward,
                      spend_with(transaction, reward, RewardTotal, UtxoStore))

NextFee == SpendWithFee

SpecFee == InitFee /\ [][NextFee]_vars

(* ------------------- on_finalize over the whole Value range ----------- *)
\* longer authority lists for the arithmetic of disperse_reward
LongAuthorityLists ==
    AuthorityLists \cup { <<"A", "B", "A">>, <<"A", "B", "A", "B">> }

\* storage whose RewardTotal cell holds any Value
InitArith == \E pool \in 0..VALUE_MAX : InitOn(pool, LongAuthorityLists)

NextArith == OnFinalize \/ NextBlock

SpecArith == InitArith /\ [][NextArith]_vars

(* ---------------------------- properties ------------------------------ *)
\* the last call was a spend / an on_finalize
LastIsSpend == last.op = "spend"
LastIsFinalize == last.op = "on_finalize"

\* the outpoints the last transaction names
LastOutpoints == {last.transaction.inputs[i].outpoint : i \in DOMAIN last.transaction.inputs}

RECURSIVE InputSum(_, _)
\* sum of the values of the outputs of store that a list of inputs references
InputSum(inputs, store) ==
    IF inputs = <<>> THEN 0
    ELSE (IF inputs[1].outpoint \in DOMAIN store THEN store[inputs[1].outpoint].value ELSE 0)
         + InputSum(Tail(inputs), store)

\* the fee of the last transaction on the store it ran on
LastFee == InputSum(last.transaction.inputs, last.preUtxo) - SumSeq(last.transaction.outputs)

\* total value: the outputs of a store plus a pool
Total(store, pool) == SumStore(store) + pool

\* the storage is as it was before the last call
StorageUnchanged == UtxoStore = last.preUtxo /\ RewardTotal = last.prePool

\* C1: a spend that returns success leaves the sum of the values of the UTXO
\* set plus the reward pool as it was before the call.
C1_ValueConservation ==
    (LastIsSpend /\ last.result = "Ok")
        => Total(UtxoStore, RewardTotal) = Total(last.preUtxo, last.prePool)

\* C2: a spend naming an outpoint that an earlier applied transaction of the
\* block consumed is rejected with MissingInput.
C2_DoubleSpendRejected ==
    (LastIsSpend /\ LastOutpoints \cap last.preSpent # {})
        => last.result = "MissingInput"

LastShare == last.prePool \div Len(last.authorities)

LastRewardKeys ==
    {HashOfReward(TransactionOutput(LastShare, last.authorities[i]), last.block) :
        i \in DOMAIN last.authorities}

\* no two authorities derive the same reward key and none is in the store
LastNoCollision ==
    /\ Cardinality(LastRewardKeys) = Len(last.authorities)
    /\ LastRewardKeys \cap DOMAIN last.preUtxo = {}

\* C4: on_finalize with n >= 1 authorities, a pool p with p / n > 0 and no
\* reward-key collision leaves the pool at p mod n and adds exactly n reward
\* outputs of value p / n, so that the pool plus the minted value is p.
C4_RewardSplit ==
    (/\ LastIsFinalize
     /\ Len(last.authorities) >= 1
     /\ LastShare > 0
     /\ LastNoCollision)
        => LET n == Len(last.authorities)
           IN /\ last.result = "done"
              /\ RewardTotal = last.prePool % n
              /\ DOMAIN UtxoStore = DOMAIN last.preUtxo \cup LastRewardKeys
              /\ \A k \in DOMAIN last.preUtxo : UtxoStore[k] = last.preUtxo[k]
              /\ \A k \in LastRewardKeys : UtxoStore[k] = k.output /\ k.output.value = LastShare
              /\ SumStore(UtxoStore) = SumStore(last.preUtxo) + LastShare * n
              /\ RewardTotal + LastShare * n = last.prePool

\* a pool of 3 was split between two authorities: one each, one left over
C4_Witness ==
    /\ LastIsFinalize
    /\ Len(last.authorities) = 2
    /\ last.prePool = 3
    /\ LastNoCollision
    /\ RewardTotal = 1
    /\ Cardinality(DOMAIN UtxoStore) = Cardinality(DOMAIN last.preUtxo) + 2

\* C5: on_finalize with an empty authority list completes without a panic
\* and leaves the reward pool and the UTXO set as they were.
C5_EmptyAuthoritiesCarry ==
    (LastIsFinalize /\ last.authorities = <<>>)
        => (last.result = "done" /\ StorageUnchanged)

\* C6: a successful spend increases the reward pool by the transaction's fee
\* (stated for the transactions whose fee is defined and not negative: every
\* input names a different key of the store, the outputs sum to no more).
C6_FeeAccrual ==
    (/\ LastIsSpend
     /\ last.result = "Ok"
     /\ LastOutpoints \subseteq DOMAIN last.preUtxo
     /\ Cardinality(LastOutpoints) = Len(last.transaction.inputs)
     /\ LastFee >= 0)
        => RewardTotal = last.prePool + LastFee

\* C7: a spend that returns an error leaves the UTXO set and the reward pool
\* as they were.
C7_RejectionLeavesState ==
    (LastIsSpend /\ last.result # "Ok") => StorageUnchanged

\* C8: a spend with an input whose outpoint is not a key of the UTXO set
\* returns MissingInput and changes neither the UTXO set nor the pool.
C8_MissingInputRejected ==
    (LastIsSpend /\ ~(LastOutpoints \subseteq DOMAIN last.preUtxo))
        => (last.result = "MissingInput" /\ StorageUnchanged)

\* C9: a spend whose outputs sum to more than the outputs its inputs
\* reference returns NegativeFee and creates no output; no spend increases
\* the total value held in the UTXO set.
C9_NegativeFeeRejected ==
    /\ (LastIsSpend /\ LastOutpoints \subseteq DOMAIN last.preUtxo /\ LastFee < 0)
          => (last.result = "NegativeFee" /\ DOMAIN UtxoStore \subseteq DOMAIN last.preUtxo)
    /\ LastIsSpend => SumStore(UtxoStore) <= SumStore(last.preUtxo)

\* C10: a spend listing the same outpoint in two inputs returns
\* DuplicateInput and leaves the UTXO set and the reward pool unchanged.
C10_DuplicateInputRejected ==
    (LastIsSpend /\ Cardinality(LastOutpoints) < Len(last.transaction.inputs))
        => (last.result = "DuplicateInput" /\ StorageUnchanged)

\* C11: from a genesis whose outputs all have value >= 1, every output stored
\* in the UTXO set has value >= 1.
C11_PositiveValues ==
    (\A i \in DOMAIN genesis_utxo : genesis_utxo[i].value >= 1)
        => \A k \in DOMAIN UtxoStore : UtxoStore[k].value >= 1

\* the reward output and key of the i-th authority of the last on_finalize
LastRewardOutput(i) == TransactionOutput(LastShare, last.authorities[i])

LastRewardKey(i) == HashOfReward(LastRewardOutput(i), last.block)

\* the key of the i-th authority is in the store when its turn comes: it was
\* there before the call or an earlier authority of the list derived it
LastCollides(i) ==
    \/ LastRewardKey(i) \in DOMAIN last.preUtxo
    \/ \E j \in 1..(i - 1) : LastRewardKey(j) = LastRewardKey(i)

\* an event is among those deposited in the current block
Recorded(e) == \E j \in DOMAIN events : events[j] = e

LastOutputKeys ==
    {HashOfTxIndex(last.transaction, i) : i \in 0..(Len(last.transaction.outputs) - 1)}

\* C13: after a successful spend of tx the UTXO set is the set before the
\* call without tx's input outpoints and with H(encode(tx), i) -> o_i for
\* every output index i; every other entry is unchanged and no input
\* outpoint of tx remains a key.
C13_SpendPostcondition ==
    (LastIsSpend /\ last.result = "Ok")
        => /\ DOMAIN UtxoStore = (DOMAIN last.preUtxo \ LastOutpoints) \cup LastOutputKeys
           /\ \A i \in 0..(Len(last.transaction.outputs) - 1) :
                 UtxoStore[HashOfTxIndex(last.transaction, i)] = last.transaction.outputs[i + 1]
           /\ \A k \in (DOMAIN last.preUtxo \ LastOutpoints) \ LastOutputKeys :
                 UtxoStore[k] = last.preUtxo[k]
           /\ LastOutpoints \cap DOMAIN UtxoStore = {}

\* a spend consumed two different keys of the store and created an output,
\* leaving another entry in place
C13_Witness ==
    /\ LastIsSpend
    /\ last.result = "Ok"
    /\ Cardinality(LastOutpoints) = 2
    /\ LastOutpoints \subseteq DOMAIN last.preUtxo
    /\ Len(last.transaction.outputs) = 1
    /\ DOMAIN last.preUtxo \ LastOutpoints # {}
    /\ Cardinality(DOMAIN UtxoStore) = Cardinality(DOMAIN last.preUtxo) - 1

\* C14: after the genesis build the UTXO set holds exactly H(encode(o)) -> o
\* for every configured output o (identical outputs are one entry) and the
\* reward pool is 0.
C14_GenesisSeeding ==
    last.op = "none"
        => /\ \A i \in DOMAIN genesis_utxo :
                 /\ HashOfOutput(genesis_utxo[i]) \in DOMAIN UtxoStore
                 /\ UtxoStore[HashOfOutput(genesis_utxo[i])] = genesis_utxo[i]
           /\ \A k \in DOMAIN UtxoStore :
                 \E i \in DOMAIN genesis_utxo : k = HashOfOutput(genesis_utxo[i])
           /\ Cardinality(DOMAIN UtxoStore)
                 = Cardinality({genesis_utxo[i] : i \in DOMAIN genesis_utxo})
           /\ RewardTotal = 0

\* a genesis configured with the same output twice seeded one entry
C14_Witness ==
    /\ last.op = "none"
    /\ Len(genesis_utxo) = 2
    /\ genesis_utxo[1] = genesis_utxo[2]
    /\ DOMAIN UtxoStore = {HashOfOutput(genesis_utxo[1])}


\* the event spend deposits for the last transaction
LastEvent == [event |-> "TransactionSuccess", transaction |-> last.transaction]

\* the last spend returned success and its storage update was applied
LastApplied == last.result = "Ok" /\ last.update = "Ok"

OutputKeys(transaction) ==
    {HashOfTxIndex(transaction, i) : i \in 0..(Len(transaction.outputs) - 1)}

\* the outpoints a transaction names
OutpointsOf(transaction) ==
    {transaction.inputs[i].outpoint : i \in DOMAIN transaction.inputs}

RECURSIVE LiveCreated(_)
\* the keys created by the transactions of a list of TransactionSuccess
\* events and not named as an input by a later transaction of the list
LiveCreated(evs) ==
    IF evs = <<>> THEN {}
    ELSE LET tx == evs[Len(evs)].transaction
         IN (LiveCreated(SubSeq(evs, 1, Len(evs) - 1)) \ OutpointsOf(tx)) \cup OutputKeys(tx)

\* C17: the outputs of the transactions applied in the block are in the UTXO
\* set under their derived keys before on_finalize runs, and a later spend of
\* the block that names such a key finds it in the store and removes it.
C17_SameBlockVisibility ==
    /\ phase = "executing"
          => \A k \in LiveCreated(events) :
                /\ k \in DOMAIN UtxoStore
                /\ UtxoStore[k] = k.transaction.outputs[k.index + 1]
    /\ (LastIsSpend /\ last.result = "Ok")
          => \A k \in LastOutpoints \cap LiveCreated(last.preEvents) :
                /\ k \in DOMAIN last.preUtxo
                /\ k \notin DOMAIN UtxoStore

\* the second spend of a block consumed an output the first one created
C17_Witness ==
    /\ LastIsSpend
    /\ last.result = "Ok"
    /\ Len(last.preEvents) = 1
    /\ LastOutpoints \cap LiveCreated(last.preEvents) # {}
    /\ LastOutpoints \cap DOMAIN UtxoStore = {}

\* C18: a key leaves the UTXO set only in a successful spend whose inputs
\* name it; on_finalize removes no key and changes no output stored under a
\* key that was there before the call.
C18_DestroyedOnlyBySpending ==
    /\ \A k \in DOMAIN last.preUtxo \ DOMAIN UtxoStore :
          LastIsSpend /\ last.result = "Ok" /\ k \in LastOutpoints
    /\ LastIsFinalize
          => \A k \in DOMAIN last.preUtxo :
                k \in DOMAIN UtxoStore /\ UtxoStore[k] = last.preUtxo[k]

\* an on_finalize added reward outputs to a store from which a spend of the
\* block had removed a key, and kept every entry that was there
C18_Witness ==
    /\ LastIsFinalize
    /\ last.preSpent # {}
    /\ DOMAIN last.preUtxo # {}
    /\ DOMAIN last.preUtxo \subseteq DOMAIN UtxoStore
    /\ DOMAIN UtxoStore # DOMAIN last.preUtxo

\* C19: for every pool p of the Value range and every authority list of
\* length n >= 1, on_finalize completes without a panic; share * n with
\* share = p / n neither overflows nor exceeds p, and the remainder written
\* is p - share * n and less than n.
C19_FinalizerArithmetic ==
    (LastIsFinalize /\ Len(last.authorities) >= 1)
        => LET n == Len(last.authorities)
           IN /\ last.result = "done"
              /\ ~last.mul_overflow
              /\ LastShare * n <= VALUE_MAX
              /\ LastShare * n <= last.prePool
              /\ LastShare > 0
                    => (RewardTotal = last.prePool - LastShare * n /\ RewardTotal < n)

\* the largest pool was split between two authorities
C19_Witness ==
    /\ LastIsFinalize
    /\ last.result = "done"
    /\ Len(last.authorities) = 2
    /\ last.prePool = VALUE_MAX
    /\ RewardTotal = 1

\* the different public keys of the last authority list
LastAuthoritySet == {last.authorities[i] : i \in DOMAIN last.authorities}

\* the reward outputs the last on_finalize added for a public key
LastRewardsOf(a) ==
    {k \in DOMAIN UtxoStore \ DOMAIN last.preUtxo : UtxoStore[k].pubkey = a}

\* C20: in an on_finalize with share > 0 a public key that is in the
\* authority list k > 1 times receives one reward output of value share; its
\* later occurrences are skipped, and their (k - 1) * share is neither in
\* the UTXO set nor in the pool: UTXO total plus pool drops by that much.
C20_RepeatedAuthorityPaidOnce ==
    (/\ LastIsFinalize
     /\ Len(last.authorities) >= 1
     /\ LastShare > 0
     /\ LastRewardKeys \cap DOMAIN last.preUtxo = {})
        => /\ \A a \in LastAuthoritySet :
                 /\ Cardinality(LastRewardsOf(a)) = 1
                 /\ \A k \in LastRewardsOf(a) : UtxoStore[k].value = LastShare
           /\ \A i \in DOMAIN last.authorities :
                 last.printed[i] =
                    IF \E j \in 1..(i - 1) : last.authorities[j] = last.authorities[i]
                    THEN "wasted" ELSE "sent"
           /\ Total(UtxoStore, RewardTotal)
                 = Total(last.preUtxo, last.prePool)
                   - (Len(last.authorities) - Cardinality(LastAuthoritySet)) * LastShare

\* a pool was split over a list naming two keys twice each: two outputs were
\* added and two shares are gone
C20_Witness ==
    /\ LastIsFinalize
    /\ last.result = "done"
    /\ Len(last.authorities) = 4
    /\ Cardinality(LastAuthoritySet) = 2
    /\ LastShare = 3
    /\ Cardinality(DOMAIN UtxoStore) = Cardinality(DOMAIN last.preUtxo) + 2
    /\ Total(UtxoStore, RewardTotal) = Total(last.preUtxo, last.prePool) - 6

====
